---------------------------- MODULE Spec2Model ----------------------------
(***************************************************************************)
(* AquaTrack: the synthetic data generator (generate_data.py) and the      *)
(* dashboard's alert engine (dashboard_app.py).                            *)
(*                                                                         *)
(* Numbers.  A float column holds an integer number of 1/Scale L/h (or of  *)
(* the column's own unit): 1450.0 is 145000000.  round(x, 2) keeps a       *)
(* multiple of Scale/100.  wur is held in thousandths (round(x, 3)), with  *)
(* PosInf and NaN for the results of a float division by zero.  Time is    *)
(* held in minutes since 00:00 of the day START_DATE falls on.             *)
(* A Gaussian deviate is a whole number of 1/ZDen standard deviations.     *)
(***************************************************************************)
EXTENDS Integers, Sequences, FiniteSets

VARIABLES
    config,         \* the module globals of generate_data.py that a run is configured by
    rng,            \* np.random's global state: deviates drawn since np.random.seed
    pc,             \* main()'s position
    cip_schedule,   \* the schedule the last generate_baseline_data() call computed
    df_baseline,    \* main()'s df_baseline
    anomaly_src,    \* generate_anomaly_data()'s df as generate_baseline_data() returned it
    df_anomaly,     \* main()'s df_anomaly
    optimized_src,  \* generate_optimized_data()'s df as generate_baseline_data() returned it
    df_optimized,   \* main()'s df_optimized
    audit,          \* what validate_dataset found: scenario -> findings
    files,          \* the files main() wrote: name -> header and rows
    csv,            \* the files the dashboard loads: scenario -> rows
    scenario,       \* the selectbox's value
    current_index,  \* st.session_state.current_index
    is_playing,     \* st.session_state.is_playing
    rerun_pending,  \* the last script run ended in st.rerun()
    df_current,     \* the window of the last script run
    alerts          \* what the alert section of the last script run got

gen_vars == <<config, rng, pc, cip_schedule, df_baseline, anomaly_src,
              df_anomaly, optimized_src, df_optimized, audit, files>>
dash_vars == <<csv, scenario, current_index, is_playing, rerun_pending,
               df_current, alerts>>
vars == <<gen_vars, dash_vars>>

---------------------------------------------------------------------------
(* Bounds of the model *)

\* seeds SEED .. SEED + MaxSeedOffset
MaxSeedOffset == 1
\* deviates range over -ZMax .. ZMax (in 1/ZDen standard deviations)
ZMax == 26
\* configurations with more samples than this are left out
MaxPoints == 1440
\* rows of the longest file the dashboard is given
MaxRows == 15
\* rows of the longest dataset the audit is given on its own
MaxAuditRows == 40

---------------------------------------------------------------------------
(* Program constants (generate_data.py) *)

SEED == 42
DAYS == 30
INTERVAL_MINUTES == 5
PRODUCTION_NOMINAL == 1000
PRODUCTION_NIGHT_PCT == 70
INLET_FLOW_BASE == 1450
TREATMENT_LOSS_PCT == 15
RINSE_FLOW_BASE == 185
CIP_DURATION_MINUTES == 90
CIP_FLOW_RATE == 1000
CIP_FREQUENCY_MINUTES == 5040
CONDUCTIVITY_MEAN == 245
TURBIDITY_MEAN_CENTI == 60
TEMPERATURE_MEAN == 22

\* fixed-point unit of the float columns
Scale == 100000
\* grid of the Gaussian deviates
ZDen == 13
\* results of a float division by zero (x / 0.0, 0.0 / 0.0)
PosInf == 2000000000
NaN == -2000000000

MinutesPerDay == 24 * 60

---------------------------------------------------------------------------
(* Arithmetic *)

\* a / b rounded to the nearest integer, ties to even (Python's round), b > 0
RoundDiv(a, b) ==
    LET q == a \div b
        r == a % b
    IN  IF 2 * r < b THEN q
        ELSE IF 2 * r > b THEN q + 1
        ELSE IF q % 2 = 0 THEN q ELSE q + 1

\* x * num / den rounded, for 0 <= x and den * |num| within the integers
MulDiv(x, num, den) ==
    (x \div den) * num + RoundDiv((x % den) * num, den)

\* round(x, 2) and round(x, 1) of a column value
Round2(x) == RoundDiv(x, Scale \div 100) * (Scale \div 100)
Round1(x) == RoundDiv(x, Scale \div 10) * (Scale \div 10)

\* round(a / b, 3) in thousandths, for a >= 0 and b > 0, by long division
DivRound3(a, b) ==
    LET q0 == a \div b
        r0 == a % b
        d1 == (10 * r0) \div b
        r1 == (10 * r0) % b
        d2 == (10 * r1) \div b
        r2 == (10 * r1) % b
        d3 == (10 * r2) \div b
        r3 == (10 * r2) % b
        t  == 1000 * q0 + 100 * d1 + 10 * d2 + d3
    IN  IF 2 * r3 < b THEN t
        ELSE IF 2 * r3 > b THEN t + 1
        ELSE IF t % 2 = 0 THEN t ELSE t + 1

\* <<digit, rest>> of 10 * r / b for 0 <= r < b, with 5 * b within the integers
DecimalStep(r, b) ==
    LET q == (5 * r) \div b
        h == (5 * r) % b
    IN  IF 2 * h >= b THEN <<2 * q + 1, 2 * h - b>> ELSE <<2 * q, 2 * h>>

\* DivRound3 for a divisor up to 4294 * Scale
WideDivRound3(a, b) ==
    LET s1 == DecimalStep(a % b, b)
        s2 == DecimalStep(s1[2], b)
        s3 == DecimalStep(s2[2], b)
        t  == 1000 * (a \div b) + 100 * s1[1] + 10 * s2[1] + s3[1]
    IN  IF 2 * s3[2] < b THEN t
        ELSE IF 2 * s3[2] > b THEN t + 1
        ELSE IF t % 2 = 0 THEN t ELSE t + 1

\* the float division inlet / production of pandas, rounded to 3 places
FloatDivRound3(a, b) ==
    IF b > 0 THEN DivRound3(a, b)
    ELSE IF b = 0 THEN (IF a > 0 THEN PosInf ELSE NaN)
    ELSE 0 - DivRound3(a, 0 - b)

RECURSIVE SumTo(_, _, _)
\* sum of f[i] for i in lo..hi
SumTo(f, lo, hi) ==
    IF lo > hi THEN 0
    ELSE IF lo = hi THEN f[lo]
    ELSE SumTo(f, lo, (lo + hi) \div 2) + SumTo(f, (lo + hi) \div 2 + 1, hi)

---------------------------------------------------------------------------
(* The random stream *)

\* the k-th deviate np.random.normal draws after np.random.seed(seed)
Gauss(seed, k) ==
    ((seed * 7919 + k * 173 + (k \div 11) * 29 + (k % 1009) * (k % 1009))
        % (2 * ZMax + 1)) - ZMax

\* value * (1 + np.random.normal(0, factor)), factor = pct/100, deviate z/ZDen
add_noise(value, pct, z) == value + MulDiv(value, pct * z, 100 * ZDen)

\* deviates one sample of generate_baseline_data draws
DrawsPerSample == 7

---------------------------------------------------------------------------
(* Helpers of the generator *)

get_shift(hour) ==
    IF 6 <= hour /\ hour < 14 THEN "morning"
    ELSE IF 14 <= hour /\ hour < 22 THEN "afternoon"
    ELSE "night"

is_cip_time(timestamp, schedule) ==
    \E j \in 1..Len(schedule) :
        schedule[j].start <= timestamp /\ timestamp < schedule[j].end

RECURSIVE CipLoop(_, _, _)
\* the while loop of generate_cip_schedule, from current_date on
CipLoop(current_date, horizon_end, frequency) ==
    IF current_date < horizon_end
    THEN LET cip_start == (current_date \div MinutesPerDay) * MinutesPerDay + 14 * 60
             cip_end   == cip_start + CIP_DURATION_MINUTES
         IN  (IF cip_start < horizon_end
              THEN <<[start |-> cip_start, end |-> cip_end]>>
              ELSE <<>>)
             \o CipLoop(current_date + frequency, horizon_end, frequency)
    ELSE <<>>

generate_cip_schedule(start_date, days, frequency) ==
    CipLoop(start_date, start_date + days * MinutesPerDay, frequency)

\* a // b of Python for b # 0: the floor of the quotient
FloorDiv(a, b) == IF b > 0 THEN a \div b ELSE (0 - a) \div (0 - b)

\* TOTAL_POINTS = DAYS * 24 * (60 // INTERVAL_MINUTES)
TOTAL_POINTS(cfg) == cfg.DAYS * 24 * FloorDiv(60, cfg.INTERVAL_MINUTES)


---------------------------------------------------------------------------
(* generate_baseline_data *)

\* one pass of the loop body for the sample at timestamp ts, drawing its
\* deviates from position k of the stream
BaselineSample(cfg, schedule, ts, k) ==
    LET hour   == (ts % MinutesPerDay) \div 60
        shift  == get_shift(hour)
        seed   == cfg.seed
        cip_active == is_cip_time(ts, schedule)
        nominal == IF shift = "night"
                   THEN MulDiv(cfg.PRODUCTION_NOMINAL * Scale, PRODUCTION_NIGHT_PCT, 100)
                   ELSE cfg.PRODUCTION_NOMINAL * Scale
        noisy_production == add_noise(nominal, 3, Gauss(seed, k))
        production == IF cip_active THEN MulDiv(noisy_production, 8, 10)
                      ELSE noisy_production
        cip_flow == IF cip_active THEN CIP_FLOW_RATE * Scale ELSE 0
        inlet_base == IF cip_active THEN INLET_FLOW_BASE * Scale + cip_flow
                      ELSE INLET_FLOW_BASE * Scale
        rinse_base == IF cip_active THEN MulDiv(RINSE_FLOW_BASE * Scale, 5, 10)
                      ELSE RINSE_FLOW_BASE * Scale
        inlet_flow == add_noise(inlet_base, 4, Gauss(seed, k + 1))
        rinse_flow == add_noise(rinse_base, 6, Gauss(seed, k + 2))
        post_treatment_flow ==
            add_noise(MulDiv(inlet_flow, 100 - TREATMENT_LOSS_PCT, 100), 3,
                      Gauss(seed, k + 3))
        conductivity == add_noise(CONDUCTIVITY_MEAN * Scale, 2, Gauss(seed, k + 4))
        noisy_turbidity ==
            add_noise(TURBIDITY_MEAN_CENTI * (Scale \div 100), 15, Gauss(seed, k + 5))
        turbidity == IF noisy_turbidity > Scale \div 10 THEN noisy_turbidity
                     ELSE Scale \div 10
        temperature == add_noise(TEMPERATURE_MEAN * Scale, 5, Gauss(seed, k + 6))
        wur == IF production > 0 THEN DivRound3(inlet_flow, production) ELSE 0
        line_status == IF production > 500 * Scale THEN "running" ELSE "stopped"
    IN  [ timestamp |-> ts,
          scenario |-> "baseline",
          inlet_flow_lph |-> Round2(inlet_flow),
          post_treatment_flow_lph |-> Round2(post_treatment_flow),
          rinse_flow_lph |-> Round2(rinse_flow),
          cip_flow_lph |-> cip_flow,
          production_lph |-> Round2(production),
          conductivity_uS_cm |-> Round2(conductivity),
          turbidity_NTU |-> Round2(turbidity),
          temperature_C |-> Round1(temperature),
          cip_active |-> IF cip_active THEN 1 ELSE 0,
          shift |-> shift,
          line_status |-> line_status,
          wur |-> wur ]

\* the schedule generate_baseline_data computes (line 115)
BaselineSchedule(cfg) ==
    generate_cip_schedule(cfg.START_DATE, cfg.DAYS, cfg.CIP_FREQUENCY_MINUTES)

\* the dataframe generate_baseline_data returns when np.random has drawn r deviates
generate_baseline_data(cfg, r) ==
    LET schedule == BaselineSchedule(cfg)
    IN  [ i \in 1..TOTAL_POINTS(cfg) |->
            BaselineSample(cfg, schedule,
                           cfg.START_DATE + cfg.INTERVAL_MINUTES * (i - 1),
                           r + DrawsPerSample * (i - 1)) ]

\* np.random's state after generate_baseline_data ran from state r
rng_after(cfg, r) ==
    r + DrawsPerSample * (IF TOTAL_POINTS(cfg) > 0 THEN TOTAL_POINTS(cfg) ELSE 0)

---------------------------------------------------------------------------
(* generate_anomaly_data: the edits made to the dataframe it generated *)

InWindow(ts, from, to) == from <= ts /\ ts < to

leak_start(cfg) == cfg.START_DATE + 15 * MinutesPerDay + 14 * 60
leak_end(cfg)   == cfg.START_DATE + 15 * MinutesPerDay + 22 * 60
overrinse_start(cfg) == cfg.START_DATE + 21 * MinutesPerDay + 9 * 60
overrinse_end(cfg)   == cfg.START_DATE + 21 * MinutesPerDay + 17 * 60
unplanned_cip_start(cfg) == cfg.START_DATE + 27 * MinutesPerDay + 15 * 60 + 30
unplanned_cip_end(cfg)   == unplanned_cip_start(cfg) + CIP_DURATION_MINUTES

leak_mask(cfg, row) == InWindow(row.timestamp, leak_start(cfg), leak_end(cfg))
overrinse_mask(cfg, row) ==
    InWindow(row.timestamp, overrinse_start(cfg), overrinse_end(cfg))
unplanned_cip_mask(cfg, row) ==
    InWindow(row.timestamp, unplanned_cip_start(cfg), unplanned_cip_end(cfg))

\* lines 224-256 on one row
AnomalyRow(cfg, row) ==
    LET inlet1 == IF leak_mask(cfg, row)
                  THEN MulDiv(row.inlet_flow_lph, 120, 100)
                  ELSE row.inlet_flow_lph
        rinse2 == IF overrinse_mask(cfg, row)
                  THEN MulDiv(row.rinse_flow_lph, 150, 100)
                  ELSE row.rinse_flow_lph
        inlet2 == IF overrinse_mask(cfg, row)
                  THEN inlet1 + MulDiv(rinse2, 3, 10)
                  ELSE inlet1
        unplanned == unplanned_cip_mask(cfg, row)
        inlet3 == IF unplanned THEN inlet2 + CIP_FLOW_RATE * Scale ELSE inlet2
        production3 == IF unplanned THEN MulDiv(row.production_lph, 8, 10)
                       ELSE row.production_lph
    IN  [ row EXCEPT
            !.scenario = "anomaly",
            !.inlet_flow_lph = inlet3,
            !.rinse_flow_lph = rinse2,
            !.cip_flow_lph = IF unplanned THEN CIP_FLOW_RATE * Scale ELSE @,
            !.cip_active = IF unplanned THEN 1 ELSE @,
            !.production_lph = production3,
            !.wur = FloatDivRound3(inlet3, production3) ]

AnomalyEdits(cfg, df) == [ i \in 1..Len(df) |-> AnomalyRow(cfg, df[i]) ]

---------------------------------------------------------------------------
(* generate_optimized_data: the edits made to the dataframe it generated *)

\* OptimizedInlet with the last adjustment raising the flow by 10% (* 1.10)
OptimizedInlet_Raised(row) ==
    LET inlet2 == MulDiv(row.inlet_flow_lph, 97, 100)
        cip1   == MulDiv(row.cip_flow_lph, 90, 100)
        inlet3 == IF row.cip_active = 1 THEN inlet2 - MulDiv(cip1, 1, 10) ELSE inlet2
    IN  MulDiv(inlet3, 110, 100)

\* the four adjustments of inlet_flow_lph (lines 293, 298, 302)
OptimizedInlet(row) ==
    LET inlet2 == MulDiv(row.inlet_flow_lph, 97, 100)
        cip1   == MulDiv(row.cip_flow_lph, 90, 100)
        inlet3 == IF row.cip_active = 1 THEN inlet2 - MulDiv(cip1, 1, 10) ELSE inlet2
    IN  MulDiv(inlet3, 90, 100)

\* lines 281-306 on one row
OptimizedRow(row) ==
    LET inlet == OptimizedInlet(row)
    IN  [ row EXCEPT
            !.scenario = "optimized",
            !.rinse_flow_lph = MulDiv(@, 75, 100),
            !.post_treatment_flow_lph = MulDiv(@, 100 - 12, 100 - 15),
            !.cip_flow_lph = IF row.cip_active = 1 THEN MulDiv(@, 90, 100) ELSE @,
            !.inlet_flow_lph = inlet,
            !.wur = FloatDivRound3(inlet, row.production_lph) ]

OptimizedEdits(df) == [ i \in 1..Len(df) |-> OptimizedRow(df[i]) ]

---------------------------------------------------------------------------
(* validate_dataset *)

Scenarios == {"baseline", "anomaly", "optimized"}

Abs(x) == IF x < 0 THEN 0 - x ELSE x

\* x < t and x > t for a float x that may be inf or nan
FloatLt(x, t) == x # NaN /\ x < t
FloatGt(x, t) == x # NaN /\ x > t

\* line 342: post_treatment_flow_lph + rinse_flow_lph + cip_flow_lph
TotalOut(row) == row.post_treatment_flow_lph + row.rinse_flow_lph + row.cip_flow_lph

\* line 343, in thousandths: abs(inlet_flow_lph - total_out) / inlet_flow_lph
BalanceError(row) ==
    LET d == Abs(row.inlet_flow_lph - TotalOut(row))
    IN  IF row.inlet_flow_lph > 0 THEN WideDivRound3(d, row.inlet_flow_lph)
        ELSE IF row.inlet_flow_lph = 0 THEN (IF d > 0 THEN PosInf ELSE NaN)
        ELSE 0 - WideDivRound3(d, 0 - row.inlet_flow_lph)

\* line 345: balance_error > 0.30, decided on the exact quotient
\* (10 * |inlet - total_out| > 3 * inlet)
BalanceErrorHigh(row) ==
    LET d == Abs(row.inlet_flow_lph - TotalOut(row))
    IN  IF row.inlet_flow_lph > 0 THEN d > (3 * row.inlet_flow_lph) \div 10
        ELSE IF row.inlet_flow_lph = 0 THEN d > 0
        ELSE FALSE

\* lines 342-343: the row with the two columns validate_dataset adds to df
WithBalanceColumns(row) ==
    [ c \in DOMAIN row \cup {"total_out", "balance_error"} |->
        IF c = "total_out" THEN TotalOut(row)
        ELSE IF c = "balance_error" THEN BalanceError(row)
        ELSE row[c] ]

\* line 345: (df['balance_error'] > 0.30).sum()
HighErrorCount(df) == Cardinality({ i \in 1..Len(df) : BalanceErrorHigh(df[i]) })

\* MassBalanceTest with 30% of the points allowed (len(df) * 0.30)
MassBalanceTest_Lenient(df) == 10 * HighErrorCount(df) > 3 * Len(df)

\* line 346: high_error > len(df) * 0.05
MassBalanceTest(df) == 20 * HighErrorCount(df) > Len(df)

\* line 350: df.isnull().sum().sum() > 0, over the columns that can hold nan
HasNull(df) ==
    \E i \in 1..Len(df) :
        df[i].wur = NaN \/ BalanceError(df[i]) = NaN

\* a finding: its message and the number it is formatted with (0: none)
Finding(message, points) == [message |-> message, points |-> points]

\* lines 324-366: the dataframe as the call leaves it, errors, warnings and
\* the value returned
validate_dataset(df, scenario_name) ==
    LET wur_range ==
            IF \E i \in 1..Len(df) :
                   FloatLt(df[i].wur, 1000) \/ FloatGt(df[i].wur, 3000)
            THEN << Finding("WUR hors plage [1.0, 3.0]", 0) >> ELSE <<>>
        production_range ==
            IF \E i \in 1..Len(df) :
                   df[i].production_lph < 0 \/ df[i].production_lph > 1500 * Scale
            THEN << Finding("Production hors plage [0, 1500]", 0) >> ELSE <<>>
        conductivity_range ==
            IF \E i \in 1..Len(df) :
                   \/ df[i].conductivity_uS_cm < 100 * Scale
                   \/ df[i].conductivity_uS_cm > 400 * Scale
            THEN << Finding("Conductivite hors plage typique [100, 400]", 0) >>
            ELSE <<>>
        mass_balance ==
            IF MassBalanceTest(df)
            THEN << Finding("points avec erreur bilan de masse > 30%",
                            HighErrorCount(df)) >>
            ELSE <<>>
        missing ==
            IF HasNull(df) THEN << Finding("Valeurs manquantes", 0) >> ELSE <<>>
        errors == wur_range \o production_range \o missing
    IN  [ df |-> [ i \in 1..Len(df) |-> WithBalanceColumns(df[i]) ],
          errors |-> errors,
          warnings |-> conductivity_range \o mass_balance,
          result |-> Len(errors) = 0 ]

\* what a call reports
Findings(report) ==
    [errors |-> report.errors, warnings |-> report.warnings, result |-> report.result]

---------------------------------------------------------------------------
(* export_to_csv.  A file is its header line and one line per row, each    *)
(* line a tuple of fields in the order of the dataframe's columns.         *)

\* the columns of the dataframe generate_baseline_data builds (lines 118-133)
SampleColumns ==
    << "timestamp", "scenario", "inlet_flow_lph", "post_treatment_flow_lph",
       "rinse_flow_lph", "cip_flow_lph", "production_lph", "conductivity_uS_cm",
       "turbidity_NTU", "temperature_C", "cip_active", "shift", "line_status",
       "wur" >>

FloatColumns ==
    { "inlet_flow_lph", "post_treatment_flow_lph", "rinse_flow_lph", "cip_flow_lph",
      "production_lph", "conductivity_uS_cm", "turbidity_NTU", "temperature_C",
      "wur", "total_out", "balance_error" }

\* df.columns: the columns df was built with, then the two that
\* validate_dataset adds (lines 342-343) once it has been called on df
Columns(df, validated) ==
    IF validated THEN SampleColumns \o << "total_out", "balance_error" >>
    ELSE SampleColumns

\* date_format='%Y-%m-%d %H:%M:%S': <<days since 00:00 of START_DATE's day, H, M, S>>
FormatTimestamp(ts) ==
    << FloorDiv(ts, MinutesPerDay), (ts % MinutesPerDay) \div 60, ts % 60, 0 >>

\* the text of one field: nan is written as the empty field
CsvField(column, value) ==
    IF column = "timestamp" THEN FormatTimestamp(value)
    ELSE IF column \in FloatColumns THEN (IF value = NaN THEN "" ELSE value)
    ELSE value

\* line 374: df.to_csv(filename, index=False, date_format=...)
export_to_csv(df, validated) ==
    LET columns == Columns(df, validated)
    IN  [ header |-> columns,
          rows |-> [ i \in 1..Len(df) |->
                      [ c \in 1..Len(columns) |->
                          CsvField(columns[c], df[i][columns[c]]) ] ] ]

---------------------------------------------------------------------------
(* main of generate_data.py *)

Seeds == SEED .. SEED + MaxSeedOffset

\* the configurations explored; the repository's own is
\* (SEED, 0, DAYS, INTERVAL_MINUTES, CIP_FREQUENCY_MINUTES, PRODUCTION_NOMINAL)
Configs ==
    { cfg \in [ seed : Seeds,
                START_DATE : {0, 10 * 60},
                DAYS : {1, DAYS},
                INTERVAL_MINUTES : {INTERVAL_MINUTES, 30, 45, 60, 120},
                CIP_FREQUENCY_MINUTES : {12 * 60, MinutesPerDay, CIP_FREQUENCY_MINUTES},
                PRODUCTION_NOMINAL : {0, PRODUCTION_NOMINAL} ] :
        TOTAL_POINTS(cfg) <= MaxPoints }

GenInit ==
    /\ config \in Configs
    /\ rng = 0
    /\ pc = "start"
    /\ cip_schedule = <<>>
    /\ df_baseline = <<>>
    /\ anomaly_src = <<>>
    /\ df_anomaly = <<>>
    /\ optimized_src = <<>>
    /\ df_optimized = <<>>
    /\ audit = <<>>
    /\ files = <<>>

\* the dashboard is not part of a run of generate_data.py
DashIdle ==
    /\ csv = <<>>
    /\ scenario = "baseline"
    /\ current_index = 0
    /\ is_playing = FALSE
    /\ rerun_pending = FALSE
    /\ df_current = <<>>
    /\ alerts = [raised |-> "", alerts |-> <<>>]

\* line 203: total_water / DAYS, a division of Python floats, raises when
\* DAYS = 0 (the dataframe is empty then, and the sum of its column is 0)
BaselineRaises(cfg) == cfg.DAYS = 0

\* line 452: df_baseline = generate_baseline_data()
MainBaseline ==
    /\ pc = "start"
    /\ df_baseline' = IF BaselineRaises(config) THEN df_baseline
                      ELSE generate_baseline_data(config, rng)
    /\ cip_schedule' = BaselineSchedule(config)
    /\ rng' = rng_after(config, rng)
    /\ pc' = IF BaselineRaises(config) THEN "ZeroDivisionError" ELSE "baseline"
    /\ UNCHANGED <<config, anomaly_src, df_anomaly, optimized_src, df_optimized,
                   audit, files, dash_vars>>

\* line 453: df_anomaly = generate_anomaly_data()
MainAnomaly ==
    /\ pc = "baseline"
    /\ anomaly_src' = generate_baseline_data(config, rng)
    /\ df_anomaly' = AnomalyEdits(config, anomaly_src')
    /\ cip_schedule' = BaselineSchedule(config)
    /\ rng' = rng_after(config, rng)
    /\ pc' = "anomaly"
    /\ UNCHANGED <<config, df_baseline, optimized_src, df_optimized,
                   audit, files, dash_vars>>

\* line 454: df_optimized = generate_optimized_data()
MainOptimized ==
    /\ pc = "anomaly"
    /\ optimized_src' = generate_baseline_data(config, rng)
    /\ df_optimized' = OptimizedEdits(optimized_src')
    /\ cip_schedule' = BaselineSchedule(config)
    /\ rng' = rng_after(config, rng)
    /\ pc' = "optimized"
    /\ UNCHANGED <<config, df_baseline, anomaly_src, df_anomaly,
                   audit, files, dash_vars>>

\* lines 457-459: the three validate_dataset calls, each on main's own dataframe
MainValidate ==
    /\ pc = "optimized"
    /\ LET baseline == validate_dataset(df_baseline, "baseline")
           anomaly == validate_dataset(df_anomaly, "anomaly")
           optimized == validate_dataset(df_optimized, "optimized")
       IN  /\ df_baseline' = baseline.df
           /\ df_anomaly' = anomaly.df
           /\ df_optimized' = optimized.df
           /\ audit' = [ sc \in Scenarios |->
                           IF sc = "baseline" THEN Findings(baseline)
                           ELSE IF sc = "anomaly" THEN Findings(anomaly)
                           ELSE Findings(optimized) ]
    /\ pc' = "validated"
    /\ UNCHANGED <<config, rng, cip_schedule, anomaly_src, optimized_src, files, dash_vars>>

\* lines 463-465: the three export_to_csv calls
MainExport ==
    /\ pc = "validated"
    /\ files' = [ name \in {"baseline.csv", "anomaly.csv", "optimized.csv"} |->
                    IF name = "baseline.csv"
                    THEN export_to_csv(df_baseline, pc = "validated")
                    ELSE IF name = "anomaly.csv"
                    THEN export_to_csv(df_anomaly, pc = "validated")
                    ELSE export_to_csv(df_optimized, pc = "validated") ]
    /\ pc' = "exported"
    /\ UNCHANGED <<config, rng, cip_schedule, df_baseline, anomaly_src, df_anomaly,
                   optimized_src, df_optimized, audit, dash_vars>>

GenNext == MainBaseline \/ MainAnomaly \/ MainOptimized \/ MainValidate \/ MainExport

Init == GenInit /\ DashIdle
Next == GenNext
Spec == Init /\ [][Next]_vars

---------------------------------------------------------------------------
(* generate_data.py with DAYS or INTERVAL_MINUTES set to a value that is   *)
(* not positive                                                            *)

\* line 31 runs when the module is loaded: 60 // 0 raises
AfterImport(cfg) ==
    IF cfg.INTERVAL_MINUTES = 0 THEN "ZeroDivisionError" ELSE "start"

InvalidConfigs ==
    { cfg \in [ seed : Seeds,
                START_DATE : {0, 10 * 60},
                DAYS : {0 - 1, 0, 1, DAYS},
                INTERVAL_MINUTES : {0 - INTERVAL_MINUTES, 0, INTERVAL_MINUTES,
                                    30, 45, 60, 120},
                CIP_FREQUENCY_MINUTES : {12 * 60, MinutesPerDay, CIP_FREQUENCY_MINUTES},
                PRODUCTION_NOMINAL : {0, PRODUCTION_NOMINAL} ] :
        /\ cfg.DAYS <= 0 \/ cfg.INTERVAL_MINUTES <= 0
        /\ cfg.INTERVAL_MINUTES # 0 => TOTAL_POINTS(cfg) <= MaxPoints }

InvalidConfigInit ==
    /\ config \in InvalidConfigs
    /\ rng = 0
    /\ pc = AfterImport(config)
    /\ cip_schedule = <<>>
    /\ df_baseline = <<>>
    /\ anomaly_src = <<>>
    /\ df_anomaly = <<>>
    /\ optimized_src = <<>>
    /\ df_optimized = <<>>
    /\ audit = <<>>
    /\ files = <<>>
    /\ DashIdle

\* the first call of main()
InvalidConfigNext == MainBaseline

SpecInvalidConfig == InvalidConfigInit /\ [][InvalidConfigNext]_vars

---------------------------------------------------------------------------
(* validate_dataset and export_to_csv on datasets built by hand *)

\* <<inlet, post_treatment, rinse, cip>> in L/h of a row in balance (0% and
\* 5% off)
BalancedProfiles == { <<1000, 850, 150, 0>>, <<1000, 800, 150, 0>> }

\* <<inlet, post_treatment, rinse, cip>> in L/h of a row off balance by 30%,
\* 31%, 40% under, 40% over, and with no inlet flow at all
OffBalanceProfiles ==
    { <<1000, 550, 150, 0>>, <<1000, 540, 150, 0>>, <<1000, 450, 150, 0>>,
      <<1000, 850, 150, 400>>, <<0, 0, 150, 0>> }

\* row i of a dataset, with the flows of profile f
ProfileRow(i, f) ==
    [ timestamp |-> INTERVAL_MINUTES * (i - 1),
      scenario |-> "baseline",
      inlet_flow_lph |-> f[1] * Scale,
      post_treatment_flow_lph |-> f[2] * Scale,
      rinse_flow_lph |-> f[3] * Scale,
      cip_flow_lph |-> f[4] * Scale,
      production_lph |-> PRODUCTION_NOMINAL * Scale,
      conductivity_uS_cm |-> CONDUCTIVITY_MEAN * Scale,
      turbidity_NTU |-> TURBIDITY_MEAN_CENTI * (Scale \div 100),
      temperature_C |-> TEMPERATURE_MEAN * Scale,
      cip_active |-> IF f[4] > 0 THEN 1 ELSE 0,
      shift |-> get_shift(((INTERVAL_MINUTES * (i - 1)) % MinutesPerDay) \div 60),
      line_status |-> "running",
      wur |-> DivRound3(f[1] * Scale, PRODUCTION_NOMINAL * Scale) ]

AuditLengths == {0, 1, 19, 20, 21, MaxAuditRows}

\* n rows, the first b of them off balance
ProfileDataset(n, b, off, balanced) ==
    [ i \in 1..n |-> IF i <= b THEN ProfileRow(i, off) ELSE ProfileRow(i, balanced) ]

ProfileDatasetsOf(n) ==
    { ProfileDataset(n, b, off, balanced) :
        b \in { j \in 0..3 : j <= n },
        off \in OffBalanceProfiles, balanced \in BalancedProfiles }

ProfileDatasets == UNION { ProfileDatasetsOf(n) : n \in AuditLengths }

Relabelled(df, sc) == [ i \in 1..Len(df) |-> [ df[i] EXCEPT !.scenario = sc ] ]

\* main() at line 456, its three dataframes built by hand
AuditInit ==
    /\ config = [ seed |-> SEED, START_DATE |-> 0, DAYS |-> DAYS,
                  INTERVAL_MINUTES |-> INTERVAL_MINUTES,
                  CIP_FREQUENCY_MINUTES |-> CIP_FREQUENCY_MINUTES,
                  PRODUCTION_NOMINAL |-> PRODUCTION_NOMINAL ]
    /\ rng = 0
    /\ pc = "optimized"
    /\ cip_schedule = <<>>
    /\ df_baseline \in ProfileDatasets
    /\ anomaly_src = <<>>
    /\ df_anomaly = Relabelled(df_baseline, "anomaly")
    /\ optimized_src = <<>>
    /\ df_optimized = Relabelled(df_baseline, "optimized")
    /\ audit = <<>>
    /\ files = <<>>
    /\ DashIdle

AuditNext == MainValidate \/ MainExport

SpecAudit == AuditInit /\ [][AuditNext]_vars

---------------------------------------------------------------------------
(* dashboard_app.py.  The rows read from a file hold their flows in        *)
(* hundredths (CsvUnit per L/h) and wur in thousandths.                    *)

CsvUnit == 100

Return(a) == [raised |-> "", alerts |-> a]
Raise(e)  == [raised |-> e, alerts |-> <<>>]

Latest(df) == df[Len(df)]

\* WurAlerts with the elif written as a second if
WurAlerts_TwoIfs(df) ==
    (IF FloatGt(Latest(df).wur, 1850)
     THEN << [type |-> "WUR Critique", severity |-> "HIGH",
              value |-> Latest(df).wur, time |-> Latest(df).timestamp] >>
     ELSE <<>>)
    \o
    (IF FloatGt(Latest(df).wur, 1700)
     THEN << [type |-> "WUR Eleve", severity |-> "MEDIUM",
              value |-> Latest(df).wur, time |-> Latest(df).timestamp] >>
     ELSE <<>>)

\* lines 119-133: the if / elif on the latest wur
WurAlerts(df) ==
    IF FloatGt(Latest(df).wur, 1850)
    THEN << [type |-> "WUR Critique", severity |-> "HIGH",
             value |-> Latest(df).wur, time |-> Latest(df).timestamp] >>
    ELSE IF FloatGt(Latest(df).wur, 1700)
    THEN << [type |-> "WUR Eleve", severity |-> "MEDIUM",
             value |-> Latest(df).wur, time |-> Latest(df).timestamp] >>
    ELSE <<>>

\* 12 * df['inlet_flow_lph'].iloc[-13:-1].mean()
TrailingSum(df) ==
    SumTo([i \in 1..Len(df) |-> df[i].inlet_flow_lph], Len(df) - 12, Len(df) - 1)

\* ((current_inlet - baseline_inlet) / baseline_inlet) * 100 in tenths of a percent
Deviation(current_inlet, sum12) ==
    LET num == 12 * current_inlet - sum12
    IN  IF sum12 = 0
        THEN (IF num > 0 THEN PosInf ELSE NaN)
        ELSE IF num >= 0 THEN DivRound3(num, sum12)
        ELSE 0 - DivRound3(0 - num, sum12)

\* deviation > 15, decided on the exact quotient
DeviationOver15(current_inlet, sum12) ==
    IF sum12 = 0 THEN 12 * current_inlet - sum12 > 0
    ELSE 100 * (12 * current_inlet - sum12) > 15 * sum12

\* LeakAlerts with the latest sample inside the mean (.iloc[-12:])
LeakAlerts_WithLatest(df) ==
    LET sum12 == SumTo([i \in 1..Len(df) |-> df[i].inlet_flow_lph],
                       Len(df) - 11, Len(df))
    IN  IF Len(df) > 12 /\ DeviationOver15(Latest(df).inlet_flow_lph, sum12)
        THEN << [type |-> "Fuite Suspectee", severity |-> "HIGH",
                 value |-> Deviation(Latest(df).inlet_flow_lph, sum12),
                 time |-> Latest(df).timestamp] >>
        ELSE <<>>

\* lines 135-147
LeakAlerts(df) ==
    IF Len(df) > 12 /\ DeviationOver15(Latest(df).inlet_flow_lph, TrailingSum(df))
    THEN << [type |-> "Fuite Suspectee", severity |-> "HIGH",
             value |-> Deviation(Latest(df).inlet_flow_lph, TrailingSum(df)),
             time |-> Latest(df).timestamp] >>
    ELSE <<>>

\* lines 149-156
RinseAlerts(df) ==
    IF Latest(df).rinse_flow_lph > 250 * CsvUnit
    THEN << [type |-> "Sur-rincage", severity |-> "MEDIUM",
             value |-> Latest(df).rinse_flow_lph, time |-> Latest(df).timestamp] >>
    ELSE <<>>

\* lines 115-158; .iloc[-1] of an empty frame raises IndexError
detect_alerts(df) ==
    IF Len(df) = 0 THEN Raise("IndexError")
    ELSE Return(WurAlerts(df) \o LeakAlerts(df) \o RinseAlerts(df))

\* AlertSection without the guard on the length of the window
AlertSection_NoGuard(df) == detect_alerts(df)

\* lines 392-407: the alert section of the script
AlertSection(df) ==
    IF Len(df) > 12 THEN detect_alerts(df) ELSE Return(<<>>)

---------------------------------------------------------------------------
(* The files given to the dashboard *)

CsvRow(i, r) ==
    [ timestamp |-> INTERVAL_MINUTES * (i - 1),
      inlet_flow_lph |-> r[2] * CsvUnit,
      rinse_flow_lph |-> r[3] * CsvUnit,
      production_lph |-> r[4] * CsvUnit,
      wur |-> r[1] ]

\* <<wur, inlet, rinse, production>> of the rows that fill a file
HistoryRows ==
    { <<1450, 1450, 185, 1000>>, <<2071, 1450, 185, 700>>, <<1000, 1000, 185, 1000>> }

\* <<wur, inlet, rinse, production>> of the row that stands out in a file
SpecialRows ==
    { <<1450, 1450, 185, 1000>>,
      <<1700, 1700, 185, 1000>>,
      <<1701, 1701, 250, 1000>>,
      <<1850, 1850, 251, 1000>>,
      <<1851, 1851, 185, 1000>>,
      <<1900, 1900, 278, 1000>>,
      <<2000, 2000, 185, 1000>>,
      <<1667, 1667, 185, 1000>>,
      <<1668, 1668, 185, 1000>>,
      <<1150, 1150, 185, 1000>>,
      <<1151, 1151, 185, 1000>>,
      <<0, 1450, 185, 0>>,
      <<PosInf, 1450, 185, 0>>,
      <<NaN, 0, 185, 0>> }

RowCounts == {1, 12, 13, MaxRows}

\* n rows of h, with s at row k (from row k on when lasting)
CsvFile(n, h, s, k, lasting) ==
    [ i \in 1..n |->
        IF i = k \/ (lasting /\ i > k) THEN CsvRow(i, s) ELSE CsvRow(i, h) ]

CsvFilesOf(n) ==
    { [ sc \in Scenarios |->
          IF sc = "baseline" THEN CsvFile(n, h, h, k, FALSE)
          ELSE IF sc = "anomaly" THEN CsvFile(n, h, s, k, FALSE)
          ELSE CsvFile(n, h, s, k, TRUE) ] :
        h \in HistoryRows, s \in SpecialRows, k \in { j \in RowCounts : j <= n } }

CsvFiles == UNION { CsvFilesOf(n) : n \in RowCounts }

---------------------------------------------------------------------------
(* One run of the script, top to bottom.  slider is what st.slider        *)
(* returns, button the button that was pressed ("" for none).  The speed  *)
(* selector only sets the delay of the sleep before st.rerun().            *)

\* AutoAdvance without the test on the last index
AutoAdvance_NoBound(playing, index, total_points) == playing

\* line 453: is_playing and current_index < total_points - 1
AutoAdvance(playing, index, total_points) == playing /\ index < total_points - 1

ScriptRun(sc, slider, button) ==
    LET df == csv[sc]
        total_points == Len(df)
        playing == IF button = "play" THEN TRUE
                   ELSE IF button \in {"pause", "reset"} THEN FALSE
                   ELSE is_playing
        index == IF button = "reset" THEN 0 ELSE slider
        window == SubSeq(df, 1, index + 1)
        advance == AutoAdvance(playing, index, total_points)
    IN  /\ scenario' = sc
        /\ is_playing' = playing
        /\ df_current' = window
        /\ alerts' = AlertSection(window)
        /\ current_index' = IF advance THEN index + 1 ELSE index
        /\ rerun_pending' = advance
        /\ UNCHANGED <<csv, gen_vars>>

\* the generator is not part of a session of the dashboard
GenIdle ==
    /\ config = [ seed |-> SEED, START_DATE |-> 0, DAYS |-> DAYS,
                  INTERVAL_MINUTES |-> INTERVAL_MINUTES,
                  CIP_FREQUENCY_MINUTES |-> CIP_FREQUENCY_MINUTES,
                  PRODUCTION_NOMINAL |-> PRODUCTION_NOMINAL ]
    /\ rng = 0
    /\ pc = "done"
    /\ cip_schedule = <<>>
    /\ df_baseline = <<>>
    /\ anomaly_src = <<>>
    /\ df_anomaly = <<>>
    /\ optimized_src = <<>>
    /\ df_optimized = <<>>
    /\ audit = <<>>
    /\ files = <<>>

\* the state after the first run of the script (lines 164-169, then the page)
DashInit ==
    /\ GenIdle
    /\ csv \in CsvFiles
    /\ scenario = "baseline"
    /\ current_index = 0
    /\ is_playing = FALSE
    /\ rerun_pending = FALSE
    /\ df_current = SubSeq(csv["baseline"], 1, 1)
    /\ alerts = AlertSection(df_current)

MoveSlider ==
    \E v \in 0..(Len(csv[scenario]) - 1) :
        v # current_index /\ ScriptRun(scenario, v, "")

PressPlay == ScriptRun(scenario, current_index, "play")

PressPause == ScriptRun(scenario, current_index, "pause")

PressReset == ScriptRun(scenario, current_index, "reset")

SelectScenario ==
    \E sc \in Scenarios : sc # scenario /\ ScriptRun(sc, current_index, "")

\* the run st.rerun() asked for
AutoRerun == rerun_pending /\ ScriptRun(scenario, current_index, "")

DashNext ==
    \/ MoveSlider
    \/ PressPlay
    \/ PressPause
    \/ PressReset
    \/ SelectScenario
    \/ AutoRerun

SpecDash == DashInit /\ [][DashNext]_vars

---------------------------------------------------------------------------
(* Properties of the generator (specification Spec) *)

Generated == pc \in {"baseline", "anomaly", "optimized"}
AnomalyDone == pc \in {"anomaly", "optimized"}
OptimizedDone == pc = "optimized"

Timestamps(df) == [ i \in 1..Len(df) |-> df[i].timestamp ]

\* C1: two calls of generate_baseline_data under the same seed and the same
\* configuration, the second made after the first without reseeding, return
\* the same samples, field for field.
C1_SameSeedSameSequence ==
    /\ AnomalyDone => anomaly_src = df_baseline
    /\ OptimizedDone => optimized_src = df_baseline

\* C2: in one run of main the anomaly and the optimized datasets have the
\* length and the timestamps of df_baseline, and each is the transform of
\* df_baseline itself, index by index.
C2_TransformsOfTheBaseline ==
    /\ AnomalyDone =>
          /\ Timestamps(df_anomaly) = Timestamps(df_baseline)
          /\ df_anomaly = AnomalyEdits(config, df_baseline)
    /\ OptimizedDone =>
          /\ Timestamps(df_optimized) = Timestamps(df_baseline)
          /\ df_optimized = OptimizedEdits(df_baseline)

\* C3: the generator returns horizon_days * 24 * 60 / interval_minutes
\* samples, the first at start_time, each interval_minutes after the one
\* before it.
C3_SampleCountAndGrid ==
    Generated =>
        /\ Len(df_baseline) * config.INTERVAL_MINUTES = config.DAYS * MinutesPerDay
        /\ \A i \in 1..Len(df_baseline) :
              df_baseline[i].timestamp =
                  config.START_DATE + config.INTERVAL_MINUTES * (i - 1)

Overlap(a, b) == a.start < b.end /\ b.start < a.end

\* C4: the intervals of the CIP schedule do not overlap pairwise, each lasts
\* the CIP duration, and none starts at or after the end of the horizon.
C4_CipScheduleDisjoint ==
    Generated =>
        /\ \A i, j \in 1..Len(cip_schedule) :
              i # j => ~Overlap(cip_schedule[i], cip_schedule[j])
        /\ \A i \in 1..Len(cip_schedule) :
              /\ cip_schedule[i].end = cip_schedule[i].start + CIP_DURATION_MINUTES
              /\ cip_schedule[i].start <
                     config.START_DATE + config.DAYS * MinutesPerDay

OutsideWindows(cfg, row) ==
    /\ ~leak_mask(cfg, row)
    /\ ~overrinse_mask(cfg, row)
    /\ ~unplanned_cip_mask(cfg, row)

\* C5: outside the three injected windows a sample of the anomaly dataset
\* equals, in every field but the scenario label, the sample at its index
\* of the baseline the transform was applied to.
C5_UntouchedOutsideWindows ==
    AnomalyDone =>
        \A i \in 1..Len(df_anomaly) :
            OutsideWindows(config, anomaly_src[i]) =>
                [df_anomaly[i] EXCEPT !.scenario = "baseline"] = anomaly_src[i]

\* wur is inlet_flow / production to the third decimal when production > 0,
\* and neither 0 nor an infinity when production = 0
WurDefined(row) ==
    /\ row.production_lph > 0 =>
          LET q == DivRound3(row.inlet_flow_lph, row.production_lph)
          IN  q - 1 <= row.wur /\ row.wur <= q + 1
    /\ row.production_lph = 0 => row.wur \notin {0, PosInf, 0 - PosInf}

\* C6: in every sample of the three datasets wur is inlet_flow / production
\* when production > 0, and when production = 0 it is a marker that is not
\* 0 and not an infinity, the same one in the three datasets.
C6_WurGuarded ==
    /\ \A i \in 1..Len(df_baseline) : WurDefined(df_baseline[i])
    /\ \A i \in 1..Len(df_anomaly) : WurDefined(df_anomaly[i])
    /\ \A i \in 1..Len(df_optimized) : WurDefined(df_optimized[i])
    /\ OptimizedDone =>
          \A i \in 1..Len(df_baseline) :
              df_baseline[i].production_lph = 0 =>
                  /\ df_anomaly[i].production_lph = 0 =>
                        df_anomaly[i].wur = df_baseline[i].wur
                  /\ df_optimized[i].production_lph = 0 =>
                        df_optimized[i].wur = df_baseline[i].wur

\* a step that applies a transform leaves np.random and df_baseline alone
TransformStepFrame ==
    pc \in {"baseline", "anomaly"} => (rng' = rng /\ df_baseline' = df_baseline)

\* C7: a step of main that applies a transform changes nothing but the
\* dataset it returns: not df_baseline, not np.random's state.
C7_TransformIsPure == [][TransformStepFrame]_vars

\* the sum of a column of at most MaxPoints values, as <<whole L/h, rest>>
InletTotal(df) ==
    LET hi == SumTo([i \in 1..Len(df) |-> df[i].inlet_flow_lph \div Scale], 1, Len(df))
        lo == SumTo([i \in 1..Len(df) |-> df[i].inlet_flow_lph % Scale], 1, Len(df))
    IN  <<hi + lo \div Scale, lo % Scale>>

TotalLess(a, b) == a[1] < b[1] \/ (a[1] = b[1] /\ a[2] < b[2])

\* C8: the optimized dataset of a non-empty baseline has a strictly lower
\* total inlet_flow than the baseline it was made from.
C8_OptimizedUsesLessWater ==
    (OptimizedDone /\ Len(optimized_src) > 0) =>
        TotalLess(InletTotal(df_optimized), InletTotal(optimized_src))

C8_Witness ==
    /\ OptimizedDone
    /\ Len(optimized_src) > 0
    /\ \E i \in 1..Len(optimized_src) : optimized_src[i].cip_active = 1
    /\ \E i \in 1..Len(optimized_src) : optimized_src[i].cip_active = 0

\* the sample is in the over-rinse window and in no other
OnlyOverrinse(cfg, row) ==
    /\ overrinse_mask(cfg, row)
    /\ ~leak_mask(cfg, row)
    /\ ~unplanned_cip_mask(cfg, row)

\* b is 1.5 * a, and d is 0.3 * c, to within a rounding of the last digit
IsOneAndAHalfTimes(b, a) == Abs(2 * b - 3 * a) <= 2
IsThreeTenthsOf(d, c) == Abs(10 * d - 3 * c) <= 10

\* C15: a sample in the over-rinse window has 1.5 times the rinse_flow of
\* the sample the transform started from, and its inlet_flow is higher by
\* 0.3 times the rinse flow that was added (rinse_flow after - before).
C15_OverrinseAddsFractionOfAddedFlow ==
    AnomalyDone =>
        \A i \in 1..Len(anomaly_src) :
            OnlyOverrinse(config, anomaly_src[i]) =>
                /\ IsOneAndAHalfTimes(df_anomaly[i].rinse_flow_lph,
                                       anomaly_src[i].rinse_flow_lph)
                /\ IsThreeTenthsOf(
                       df_anomaly[i].inlet_flow_lph - anomaly_src[i].inlet_flow_lph,
                       df_anomaly[i].rinse_flow_lph - anomaly_src[i].rinse_flow_lph)

---------------------------------------------------------------------------
(* Properties of the alert engine (specification SpecDash) *)

IsWurAlert(a) == a.type \in {"WUR Critique", "WUR Eleve"}

\* the <<type, severity>> of the WUR alerts of a list, in order
WurAlertKinds(list) ==
    LET wur_alerts == SelectSeq(list, IsWurAlert)
    IN  [ i \in 1..Len(wur_alerts) |-> <<wur_alerts[i].type, wur_alerts[i].severity>> ]

\* the WUR alerts the thresholds 1.85 and 1.70 call for
ExpectedWurKinds(w) ==
    IF w # NaN /\ w > 1850 THEN << <<"WUR Critique", "HIGH">> >>
    ELSE IF w # NaN /\ w > 1700 THEN << <<"WUR Eleve", "MEDIUM">> >>
    ELSE <<>>

\* C9: a window the engine evaluates gets one HIGH "WUR Critique" alert and
\* no MEDIUM one when its latest wur is over 1.85, one MEDIUM "WUR Eleve"
\* alert and no HIGH one when it is over 1.70 and not over 1.85, and no WUR
\* alert otherwise; detect_alerts does so on every non-empty window.
C9_AtMostOneWurAlert ==
    /\ Len(df_current) > 12 =>
          /\ alerts.raised = ""
          /\ WurAlertKinds(alerts.alerts) = ExpectedWurKinds(Latest(df_current).wur)
    /\ \A n \in 1..Len(csv[scenario]) :
          LET window == SubSeq(csv[scenario], 1, n)
          IN  WurAlertKinds(detect_alerts(window).alerts) =
                  ExpectedWurKinds(Latest(window).wur)

C9_Witness ==
    /\ Len(df_current) > 12
    /\ Latest(df_current).wur = 1900
    /\ WurAlertKinds(alerts.alerts) = << <<"WUR Critique", "HIGH">> >>

\* C10: on a window of at most 12 samples, the empty one included, the
\* alert section gets no alert and raises nothing, whatever the latest
\* sample holds.
C10_ShortWindowNoAlert ==
    /\ Len(df_current) <= 12 => alerts = [raised |-> "", alerts |-> <<>>]
    /\ \A n \in 0..12 :
          n <= Len(csv[scenario]) =>
              AlertSection(SubSeq(csv[scenario], 1, n)) =
                  [raised |-> "", alerts |-> <<>>]

C10_Witness ==
    /\ Len(df_current) = 12
    /\ Latest(df_current).wur > 1850
    /\ Latest(df_current).rinse_flow_lph > 250 * CsvUnit
    /\ alerts = [raised |-> "", alerts |-> <<>>]

IsLeakAlert(a) == a.type = "Fuite Suspectee"

\* the leak alerts of a list
LeakAlertsOf(list) == SelectSeq(list, IsLeakAlert)

\* the sum, in L/h, of the inlet flows of the 12 samples before the latest
PrecedingSum(window) ==
    SumTo([i \in 1..Len(window) |-> window[i].inlet_flow_lph \div CsvUnit],
          Len(window) - 12, Len(window) - 1)

\* the latest inlet flow in L/h
LatestInlet(window) == Latest(window).inlet_flow_lph \div CsvUnit

\* latest > 1.15 * mean of the 12 before it: 20 * (12 * latest - sum) > 3 * sum
ExceedsBy15Percent(window) ==
    20 * (12 * LatestInlet(window) - PrecedingSum(window)) > 3 * PrecedingSum(window)

\* v, in tenths of a percent, is the deviation of the latest inlet flow from
\* the mean of the 12 before it, to the nearest tenth
IsDeviationOf(v, window) ==
    LET s == PrecedingSum(window)
        d == v * s - 1000 * (12 * LatestInlet(window) - s)
    IN  2 * d <= s /\ 0 - 2 * d <= s

\* the leak alerts of a list are the ones the window calls for
LeakRuleHolds(list, window) ==
    LET leaks == LeakAlertsOf(list)
    IN  IF ExceedsBy15Percent(window)
        THEN /\ Len(leaks) = 1
             /\ leaks[1].severity = "HIGH"
             /\ leaks[1].time = Latest(window).timestamp
             /\ IsDeviationOf(leaks[1].value, window)
        ELSE Len(leaks) = 0

\* C11: on a window of 13 samples or more the engine gives one HIGH
\* "Fuite Suspectee" alert exactly when the latest inlet flow is more than
\* 15 percent over the mean of the 12 samples before it, the latest one left
\* out, and the alert carries that deviation in percent.
C11_LeakRule ==
    /\ Len(df_current) > 12 => LeakRuleHolds(alerts.alerts, df_current)
    /\ \A n \in 13..Len(csv[scenario]) :
          LET window == SubSeq(csv[scenario], 1, n)
          IN  LeakRuleHolds(detect_alerts(window).alerts, window)

\* 2000 L/h after twelve samples of 1000 L/h: a deviation of 100.0 percent
C11_Witness ==
    /\ Len(df_current) > 12
    /\ LatestInlet(df_current) = 2000
    /\ \A i \in (Len(df_current) - 12)..(Len(df_current) - 1) :
          df_current[i].inlet_flow_lph = 1000 * CsvUnit
    /\ Len(LeakAlertsOf(alerts.alerts)) = 1
    /\ LeakAlertsOf(alerts.alerts)[1].value = 1000

---------------------------------------------------------------------------
(* Properties of the configuration (specification SpecInvalidConfig) *)

\* C13: with DAYS or INTERVAL_MINUTES not positive, generate_baseline_data
\* does not return: main() never holds a dataset, empty or not, as the
\* result of a generation that went through.
C13_InvalidConfigFails ==
    (config.DAYS <= 0 \/ config.INTERVAL_MINUTES <= 0) =>
        /\ pc \in {"start", "ZeroDivisionError"}
        /\ df_baseline = <<>>

\* the window with another wur in its latest sample
WithLatestWur(df, w) == [ df EXCEPT ![Len(df)].wur = w ]

\* C16: when the latest sample of the window has production = 0, the alert
\* section gets no WUR alert from the wur stored in it, and what it gets is
\* not what it gets for a sample whose wur is under both thresholds (1.5).
C16_UndefinedWurIsUnknown ==
    (Len(df_current) > 12 /\ Latest(df_current).production_lph = 0) =>
        /\ WurAlertKinds(alerts.alerts) = <<>>
        /\ alerts # AlertSection(WithLatestWur(df_current, 1500))

\* the number of samples of the scenario on display
TotalPoints == Len(csv[scenario])

\* C17: with a dataset that is not empty, current_index is within
\* 0 .. total_points - 1; the window of a run is the samples 0 .. index of
\* the index it ran with; a run that asked for a rerun was playing, below
\* the last index, and left current_index one over that index; a run that
\* did not left it alone, and was paused or at the last index.
C17_IndexWithinDataset ==
    TotalPoints > 0 =>
        /\ 0 <= current_index /\ current_index <= TotalPoints - 1
        /\ df_current = SubSeq(csv[scenario], 1, Len(df_current))
        /\ rerun_pending =>
              /\ is_playing
              /\ current_index = Len(df_current)
        /\ ~rerun_pending =>
              /\ current_index = Len(df_current) - 1
              /\ is_playing => current_index = TotalPoints - 1

\* playing has run up to the last index of a file of 13 samples or more
\* and stopped there
C17_Witness ==
    /\ TotalPoints > 12
    /\ is_playing
    /\ ~rerun_pending
    /\ current_index = TotalPoints - 1
    /\ Len(df_current) = TotalPoints

---------------------------------------------------------------------------
(* Properties of the audit pass (specification SpecAudit) *)

Validated == pc \in {"validated", "exported"}

\* the floor of pct percent of x, for x >= 0
PercentOf(pct, x) == (x \div 100) * pct + ((x % 100) * pct) \div 100

\* |inlet - (post_treatment + rinse + cip)| is more than pct percent of inlet
OffBalanceBy(row, pct) ==
    Abs(row.inlet_flow_lph
          - (row.post_treatment_flow_lph + row.rinse_flow_lph + row.cip_flow_lph))
        > PercentOf(pct, row.inlet_flow_lph)

\* the samples of df that are more than pct percent off balance
OffBalanceCount(df, pct) ==
    Cardinality({ i \in 1..Len(df) : OffBalanceBy(df[i], pct) })

\* the audit reported a mass-balance finding
MassBalanceFlagged(report) ==
    \E i \in 1..Len(report.warnings) :
        report.warnings[i].message = "points avec erreur bilan de masse > 30%"

\* the mass-balance finding of a dataset is the one its samples call for
MassBalanceRule(df, report) ==
    /\ MassBalanceFlagged(report) <=> 20 * OffBalanceCount(df, 30) > Len(df)
    /\ 20 * OffBalanceCount(df, 39) > Len(df) => MassBalanceFlagged(report)
    /\ OffBalanceCount(df, 5) = 0 => ~MassBalanceFlagged(report)

\* C12: the audit reports a mass-balance finding for a dataset exactly when
\* the samples more than 30% off balance are more than 5% of its samples; a
\* dataset 40% off balance on more than 5% of its samples is flagged, one
\* within 5% everywhere is not.
C12_MassBalanceFinding ==
    Validated =>
        /\ MassBalanceRule(df_baseline, audit["baseline"])
        /\ MassBalanceRule(df_anomaly, audit["anomaly"])
        /\ MassBalanceRule(df_optimized, audit["optimized"])

\* 2 samples of 20 are 40% off balance, and the dataset is flagged
C12_Witness ==
    /\ pc = "validated"
    /\ Len(df_baseline) = 20
    /\ OffBalanceCount(df_baseline, 39) = 2
    /\ OffBalanceCount(df_baseline, 40) = 0
    /\ MassBalanceFlagged(audit["baseline"])

---------------------------------------------------------------------------
(* Properties of the export (specification Spec) *)

\* the fields of a sample, and the scenario
SampleFields == { SampleColumns[c] : c \in 1..Len(SampleColumns) }

\* every row of df has the fields of a sample and the scenario, and no other
OnlySampleFields(df) == \A i \in 1..Len(df) : DOMAIN df[i] = SampleFields

\* a file has the columns of a sample and the scenario, one line per sample
IsSampleFile(file, samples) ==
    /\ file.header = SampleColumns
    /\ Len(file.rows) = samples
    /\ \A i \in 1..Len(file.rows) : Len(file.rows[i]) = Len(SampleColumns)

\* C14: after the audit the three datasets still have the fields of a
\* sample and the scenario and no other, and each exported file has one line
\* per sample and exactly those columns.
C14_ExportedColumns ==
    /\ Validated =>
          /\ OnlySampleFields(df_baseline)
          /\ OnlySampleFields(df_anomaly)
          /\ OnlySampleFields(df_optimized)
    /\ pc = "exported" =>
          \A name \in DOMAIN files :
              IsSampleFile(files[name], Len(df_baseline))

===========================================================================
